---- MODULE Spec2Model ----
(***************************************************************************)
(* Batch partition-and-reconcile scheme of managers_revelio.               *)
(*                                                                         *)
(*   code/01_setup/generate_batches.py      the Batch Partitioner          *)
(*   code/02_extraction/extract_names_batch.py   the offset shard worker   *)
(*   code/02_extraction/verify_extraction.py     the Reconciler            *)
(*                                                                         *)
(* The partitioner and the extraction side share no state: each has its    *)
(* own specification over the variables of this module, the other side's   *)
(* variables staying at their idle values.                                 *)
(*   SpecPartition    main() of generate_batches.py, with shard files      *)
(*                    damaged between save and verification                *)
(*   SpecWorkers      concurrent extract_batch runs, re-runs and kills     *)
(*   SpecExtraction   extract_batch runs together with the Reconciler      *)
(*   SpecAborts       the same, with workers killed in mid-run             *)
(*   SpecLoop         the Reconciler run again and again, the indices it   *)
(*                    lists as missing being resubmitted in between        *)
(*                                                                         *)
(* File names are sequences of one-character strings, so that formatting   *)
(* (f"{i:04d}"), globbing and the parsing of an index out of a file name   *)
(* are computed, not assumed.                                              *)
(***************************************************************************)
EXTENDS Integers, Sequences, FiniteSets, TLC

VARIABLES
    \* ---- generate_batches.py ----
    inputFile,      \* INPUT_FILE: whether it exists, and its rows
    num_batches,    \* the num_batches argument of split_into_batches
    gpc,            \* position of main()
    df,             \* main's df (the loaded rows)
    batches,        \* main's batches
    saved_files,    \* main's saved_files (file names, in order)
    batchDir,       \* BATCH_DIR: file name -> content
    verify_result,  \* what verify_batches returned: "none" before the call,
                    \* then "True" or "False"
    gexit,          \* exit code of the process (-1 while it runs)
    completed,      \* "Batch generation completed successfully!" was printed
    faults,         \* number of faults injected into BATCH_DIR so far
    \* ---- extract_names_batch.py ----
    table,          \* revelio.individual_user as the query orders it:
                    \* rows <<user_id, fullname>>
    rows_per_batch, \* the rows_per_batch argument of extract_batch
    outDir,         \* output_dir (name_batches): file name -> content
    wpc,            \* per task id: position of extract_batch
    query,          \* per task id: LIMIT and OFFSET of the query text
    batch_df,       \* per task id: batch_df
    wexit,          \* per task id: exit code of the last run (-1: none yet)
    wfail,          \* per task id: why the last run ended, if it did
    startFiles,     \* per task id: its own files as they were when the run began
    runs,           \* worker invocations so far
    \* ---- verify_extraction.py ----
    vpc,            \* position of verify_extraction
    expected_batches,
    batch_files,    \* sorted(glob("batch_*.parquet"))
    stats_files,    \* sorted(glob("batch_*_stats.txt"))
    found_ids,
    missing_ids,
    total_rows,
    total_unique_users,
    success,        \* what verify_extraction returned: "none", "True", "False"
    vexit,          \* exit code of the Reconciler process (-1 while it runs)
    scanned         \* history: the task ids whose data file existed when
                    \* batch_files was globbed

partVars == <<inputFile, num_batches, gpc, df, batches, saved_files, batchDir,
              verify_result, gexit, completed, faults>>

workerVars == <<table, rows_per_batch, wpc, query, batch_df, wexit, wfail,
                startFiles, runs>>

reconVars == <<vpc, expected_batches, batch_files, stats_files, found_ids,
               missing_ids, total_rows, total_unique_users, success, vexit, scanned>>

extVars == <<workerVars, outDir, reconVars>>

vars == <<partVars, extVars>>

(***************************************************************************)
(* Bounds                                                                  *)
(***************************************************************************)
\* longest input list
MaxLen == 4
\* largest num_batches
MaxBatches == 3
\* faults injected into the shard files of one run
MaxFaults == 2
\* largest shard index (task id) a worker is invoked with
MaxTask == 2
\* worker invocations in one behaviour
MaxRuns == 2
\* rows of the external table
MaxRows == 2

(***************************************************************************)
(* Text: characters, formatting, file names                                *)
(***************************************************************************)
DigitChars == <<"0", "1", "2", "3", "4", "5", "6", "7", "8", "9">>

Min(a, b) == IF a < b THEN a ELSE b
Max(a, b) == IF a < b THEN b ELSE a

RECURSIVE Digits(_)
\* str(n) for n >= 0
Digits(n) ==
    IF n < 10 THEN <<DigitChars[n + 1]>>
    ELSE Digits(n \div 10) \o <<DigitChars[(n % 10) + 1]>>

RECURSIVE ZeroPad(_, _)
\* the 0<w>d part of a format spec: pad on the left with "0" to width w
ZeroPad(s, w) == IF Len(s) >= w THEN s ELSE ZeroPad(<<"0">> \o s, w)

\* f"batch_{i:02d}_ceos.csv"
BatchCsvName(i) ==
    <<"b", "a", "t", "c", "h", "_">> \o ZeroPad(Digits(i), 2)
        \o <<"_", "c", "e", "o", "s", ".", "c", "s", "v">>

\* 'batch_summary.txt'
BatchSummaryName ==
    <<"b", "a", "t", "c", "h", "_", "s", "u", "m", "m", "a", "r", "y",
      ".", "t", "x", "t">>

\* ASCII order of the characters file names are made of
Alphabet ==
    <<".", "0", "1", "2", "3", "4", "5", "6", "7", "8", "9", "_",
      "a", "b", "c", "d", "e", "f", "g", "h", "i", "j", "k", "l", "m",
      "n", "o", "p", "q", "r", "s", "t", "u", "v", "w", "x", "y", "z">>

Ord(c) == CHOOSE k \in 1 .. Len(Alphabet) : Alphabet[k] = c

RECURSIVE StrLess(_, _)
\* a < b on Python strings
StrLess(a, b) ==
    IF a = <<>> THEN b # <<>>
    ELSE IF b = <<>> THEN FALSE
    ELSE IF Head(a) # Head(b) THEN Ord(Head(a)) < Ord(Head(b))
    ELSE StrLess(Tail(a), Tail(b))

RECURSIVE Sorted(_)
\* sorted(names)
Sorted(names) ==
    IF names = {} THEN <<>>
    ELSE LET least == CHOOSE a \in names : \A b \in names \ {a} : StrLess(a, b)
         IN  <<least>> \o Sorted(names \ {least})

StartsWith(s, pre) == Len(s) >= Len(pre) /\ SubSeq(s, 1, Len(pre)) = pre
EndsWith(s, suf) ==
    Len(s) >= Len(suf) /\ SubSeq(s, Len(s) - Len(suf) + 1, Len(s)) = suf

\* glob of "<pre>*<suf>" over the names of a directory
Glob(names, pre, suf) ==
    {n \in names : Len(n) >= Len(pre) + Len(suf) /\ StartsWith(n, pre) /\ EndsWith(n, suf)}

RECURSIVE Remove(_, _)
\* s.replace(old, ''): every occurrence of old, left to right
Remove(s, old) ==
    IF s = <<>> THEN <<>>
    ELSE IF StartsWith(s, old) THEN Remove(SubSeq(s, Len(old) + 1, Len(s)), old)
    ELSE <<Head(s)>> \o Remove(Tail(s), old)

IsDigit(c) == \E k \in 1 .. 10 : DigitChars[k] = c
DigitValue(c) == (CHOOSE k \in 1 .. 10 : DigitChars[k] = c) - 1

\* int(s) does not raise ValueError
IsInt(s) == s # <<>> /\ \A k \in 1 .. Len(s) : IsDigit(s[k])

RECURSIVE ParseInt(_)
\* int(s) of a string of decimal digits
ParseInt(s) ==
    IF s = <<>> THEN 0
    ELSE 10 * ParseInt(SubSeq(s, 1, Len(s) - 1)) + DigitValue(s[Len(s)])

BatchPrefix == <<"b", "a", "t", "c", "h", "_">>
ParquetSuffix == <<".", "p", "a", "r", "q", "u", "e", "t">>
StatsSuffix == <<"_", "s", "t", "a", "t", "s", ".", "t", "x", "t">>

\* DataName with the task id left out of the name: "batch_0000.parquet"
DataNameUnindexed(task_id) == BatchPrefix \o ZeroPad(Digits(0), 4) \o ParquetSuffix

\* f"batch_{task_id:04d}.parquet"
DataName(task_id) == BatchPrefix \o ZeroPad(Digits(task_id), 4) \o ParquetSuffix

\* f"batch_{task_id:04d}_stats.txt"
StatsName(task_id) == BatchPrefix \o ZeroPad(Digits(task_id), 4) \o StatsSuffix

\* a summary named like a sidecar: "batch_summary_stats.txt"
ExtractionSummaryNameLikeSidecar ==
    BatchPrefix \o <<"s", "u", "m", "m", "a", "r", "y">> \o StatsSuffix

\* "extraction_summary.txt"
ExtractionSummaryName ==
    <<"e", "x", "t", "r", "a", "c", "t", "i", "o", "n", "_",
      "s", "u", "m", "m", "a", "r", "y", ".", "t", "x", "t">>

(***************************************************************************)
(* Rows and CSV                                                            *)
(*                                                                         *)
(* A row is opaque: the code only counts rows and compares them for        *)
(* equality, so a row is a number and an input list is taken up to         *)
(* renaming of its rows (the first occurrences are 1, 2, 3, ... in order). *)
(***************************************************************************)
Canonical(s) ==
    \A j \in 1 .. Len(s) :
        s[j] <= 1 + (IF j = 1 THEN 0
                     ELSE CHOOSE m \in 0 .. MaxLen :
                            /\ \E i \in 1 .. (j - 1) : s[i] = m
                            /\ \A i \in 1 .. (j - 1) : s[i] <= m)

InputLists ==
    UNION {{s \in [1 .. n -> 1 .. Max(n, 1)] : Canonical(s)} : n \in 0 .. MaxLen}

CsvHeader == <<"header">>
CsvRow(r) == <<"row", r>>

\* DataFrame.to_csv(filepath, index=False): the header line, then one line per row
to_csv(rows) == <<CsvHeader>> \o [j \in 1 .. Len(rows) |-> CsvRow(rows[j])]

\* pd.read_csv(filepath): the first line is the header, the rest are the rows
read_csv(lines) == [j \in 1 .. (Len(lines) - 1) |-> lines[j + 1][2]]

RECURSIVE Concat(_)
\* pd.concat(list, ignore_index=True)
Concat(frames) ==
    IF frames = <<>> THEN <<>> ELSE Head(frames) \o Concat(Tail(frames))

\* df.iloc[start:end] (0-based, end exclusive, clamped to the frame)
Iloc(d, start, end) ==
    LET s == Min(start, Len(d))
        e == Min(end, Len(d))
    IN  [j \in 1 .. (IF e > s THEN e - s ELSE 0) |-> d[s + j]]

\* df.duplicated().sum(): rows equal to an earlier row
DuplicatedSum(d) ==
    Cardinality({j \in 1 .. Len(d) : \E i \in 1 .. (j - 1) : d[i] = d[j]})

(***************************************************************************)
(* generate_batches.py                                                     *)
(***************************************************************************)
\* BatchSizes with the remainder given to the last batches instead of the first
BatchSizesRemainderLast(total_ceos, k) ==
    LET base_size == total_ceos \div k
        remainder == total_ceos % k
    IN  [i \in 1 .. k |-> base_size + (IF (k - i) < remainder THEN 1 ELSE 0)]

\* batch_sizes = [base_size + (1 if i < remainder else 0) for i in range(k)]
BatchSizes(total_ceos, k) ==
    LET base_size == total_ceos \div k
        remainder == total_ceos % k
    IN  [i \in 1 .. k |-> base_size + (IF (i - 1) < remainder THEN 1 ELSE 0)]

RECURSIVE SplitLoopCursorStuck(_, _, _)
\* SplitLoop without "start_idx = end_idx": every batch starts at the same row
SplitLoopCursorStuck(d, sizes, start_idx) ==
    IF sizes = <<>> THEN <<>>
    ELSE LET end_idx == start_idx + Head(sizes)
         IN  <<Iloc(d, start_idx, end_idx)>>
                \o SplitLoopCursorStuck(d, Tail(sizes), start_idx)

RECURSIVE SplitLoop(_, _, _)
\* the for loop over batch_sizes, start_idx walking through df
SplitLoop(d, sizes, start_idx) ==
    IF sizes = <<>> THEN <<>>
    ELSE LET end_idx == start_idx + Head(sizes)
         IN  <<Iloc(d, start_idx, end_idx)>> \o SplitLoop(d, Tail(sizes), end_idx)

split_into_batches(d, k) == SplitLoop(d, BatchSizes(Len(d), k), 0)

\* saved_files of save_batches
SavedFiles(bs) == [i \in 1 .. Len(bs) |-> BatchCsvName(i)]

\* BATCH_DIR after save_batches: each batch written to its own file
save_batches(dir, bs) ==
    [n \in DOMAIN dir \cup {BatchCsvName(i) : i \in 1 .. Len(bs)} |->
        IF \E i \in 1 .. Len(bs) : BatchCsvName(i) = n
        THEN to_csv(bs[CHOOSE i \in 1 .. Len(bs) : BatchCsvName(i) = n])
        ELSE dir[n]]

\* combined_df of verify_batches: every saved file reloaded, concatenated
Reloaded(dir, files) ==
    Concat([i \in 1 .. Len(files) |-> read_csv(dir[files[i]])])

\* verify_batches without its duplicate check
verify_batches_count_only(original_df, files, dir) ==
    Len(original_df) = Len(Reloaded(dir, files))

verify_batches(original_df, files, dir) ==
    LET combined_df == Reloaded(dir, files)
    IN  IF Len(original_df) # Len(combined_df) THEN FALSE
        ELSE IF DuplicatedSum(combined_df) # 0 THEN FALSE
        ELSE TRUE

\* the number of batches create_batch_summary describes before iloc[0] of an
\* empty batch raises IndexError (all of them when no batch is empty)
SummaryDescribed(bs) ==
    IF \E i \in 1 .. Len(bs) : Len(bs[i]) = 0
    THEN (CHOOSE i \in 1 .. Len(bs) :
            /\ Len(bs[i]) = 0
            /\ \A j \in 1 .. (i - 1) : Len(bs[j]) # 0) - 1
    ELSE Len(bs)

SummaryRaises(bs) == SummaryDescribed(bs) < Len(bs)

\* what create_batch_summary has written to batch_summary.txt when it ends
SummaryContent(bs) ==
    [total |-> Len(Concat(bs)),
     n |-> Len(bs),
     details |-> [i \in 1 .. SummaryDescribed(bs) |->
                    <<BatchCsvName(i), Len(bs[i]), bs[i][1], bs[i][Len(bs[i])]>>]]

(***************************************************************************)
(* Idle values: the side of the pipeline a specification does not run      *)
(***************************************************************************)
TaskIds == 1 .. MaxTask

PartitionIdle ==
    /\ inputFile = [exists |-> FALSE, rows |-> <<>>]
    /\ num_batches = 1
    /\ gpc = "load"
    /\ df = <<>>
    /\ batches = <<>>
    /\ saved_files = <<>>
    /\ batchDir = <<>>
    /\ verify_result = "none"
    /\ gexit = -1
    /\ completed = FALSE
    /\ faults = 0

\* no worker has been invoked and the Reconciler has not run
ExtractionStart ==
    /\ outDir = <<>>
    /\ wpc = [i \in TaskIds |-> "idle"]
    /\ query = [i \in TaskIds |-> [limit |-> 0, offset |-> 0]]
    /\ batch_df = [i \in TaskIds |-> <<>>]
    /\ wexit = [i \in TaskIds |-> -1]
    /\ wfail = [i \in TaskIds |-> "none"]
    /\ startFiles = [i \in TaskIds |-> <<>>]
    /\ runs = 0
    /\ vpc = "idle"
    /\ expected_batches = 0
    /\ batch_files = <<>>
    /\ stats_files = <<>>
    /\ found_ids = {}
    /\ missing_ids = {}
    /\ total_rows = 0
    /\ total_unique_users = 0
    /\ success = "none"
    /\ vexit = -1
    /\ scanned = {}

ExtractionIdle ==
    /\ table = <<>>
    /\ rows_per_batch = 1
    /\ ExtractionStart

InitPartition ==
    /\ ExtractionIdle
    /\ inputFile \in {[exists |-> FALSE, rows |-> <<>>]}
                      \cup {[exists |-> TRUE, rows |-> s] : s \in InputLists}
    /\ num_batches \in 1 .. MaxBatches
    /\ gpc = "load"
    /\ df = <<>>
    /\ batches = <<>>
    /\ saved_files = <<>>
    /\ batchDir = <<>>
    /\ verify_result = "none"
    /\ gexit = -1
    /\ completed = FALSE
    /\ faults = 0

\* except Exception as e: print; sys.exit(1)
MainFails ==
    /\ gpc' = "exited"
    /\ gexit' = 1

\* create_batch_directory(); df = load_ceo_data()
LoadCeoData ==
    /\ gpc = "load"
    /\ IF ~inputFile.exists
       THEN /\ MainFails
            /\ UNCHANGED df
       ELSE /\ df' = inputFile.rows
            /\ gpc' = "split"
            /\ UNCHANGED gexit
    /\ UNCHANGED <<inputFile, num_batches, batches, saved_files, batchDir,
                   verify_result, completed, faults>>
    /\ UNCHANGED extVars

\* batches = split_into_batches(df, NUM_BATCHES)
SplitIntoBatches ==
    /\ gpc = "split"
    /\ batches' = split_into_batches(df, num_batches)
    /\ gpc' = "save"
    /\ UNCHANGED <<inputFile, num_batches, df, saved_files, batchDir,
                   verify_result, gexit, completed, faults>>
    /\ UNCHANGED extVars

\* saved_files = save_batches(batches)
SaveBatches ==
    /\ gpc = "save"
    /\ batchDir' = save_batches(batchDir, batches)
    /\ saved_files' = SavedFiles(batches)
    /\ gpc' = "summary"
    /\ UNCHANGED <<inputFile, num_batches, df, batches, verify_result, gexit,
                   completed, faults>>
    /\ UNCHANGED extVars

\* create_batch_summary(batches, saved_files)
CreateBatchSummary ==
    /\ gpc = "summary"
    /\ batchDir' = [n \in DOMAIN batchDir \cup {BatchSummaryName} |->
                      IF n = BatchSummaryName THEN SummaryContent(batches)
                      ELSE batchDir[n]]
    /\ IF SummaryRaises(batches)
       THEN MainFails
       ELSE /\ gpc' = "verify"
            /\ UNCHANGED gexit
    /\ UNCHANGED <<inputFile, num_batches, df, batches, saved_files,
                   verify_result, completed, faults>>
    /\ UNCHANGED extVars

\* verify_batches(df, saved_files), then the closing prints of main
VerifyAndFinish ==
    /\ gpc = "verify"
    /\ verify_result' = IF verify_batches(df, saved_files, batchDir)
                        THEN "True" ELSE "False"
    /\ completed' = TRUE
    /\ gpc' = "exited"
    /\ gexit' = 0
    /\ UNCHANGED <<inputFile, num_batches, df, batches, saved_files, batchDir,
                   faults>>
    /\ UNCHANGED extVars

(***************************************************************************)
(* Fault injection on the persisted shard files (the environment, between  *)
(* save_batches and verify_batches): a row of one shard file is copied to  *)
(* the end of a shard file, or a row is removed from a shard file.         *)
(***************************************************************************)
RemoveAt(s, j) == [i \in 1 .. (Len(s) - 1) |-> IF i < j THEN s[i] ELSE s[i + 1]]

DuplicateRow ==
    /\ gpc \in {"summary", "verify"}
    /\ faults < MaxFaults
    /\ \E f \in 1 .. Len(saved_files), g \in 1 .. Len(saved_files) :
         \E j \in 2 .. Len(batchDir[saved_files[f]]) :
            batchDir' = [batchDir EXCEPT ![saved_files[g]] =
                            Append(@, batchDir[saved_files[f]][j])]
    /\ faults' = faults + 1
    /\ UNCHANGED <<inputFile, num_batches, gpc, df, batches, saved_files,
                   verify_result, gexit, completed>>
    /\ UNCHANGED extVars

DropRow ==
    /\ gpc \in {"summary", "verify"}
    /\ faults < MaxFaults
    /\ \E f \in 1 .. Len(saved_files) :
         \E j \in 2 .. Len(batchDir[saved_files[f]]) :
            batchDir' = [batchDir EXCEPT ![saved_files[f]] = RemoveAt(@, j)]
    /\ faults' = faults + 1
    /\ UNCHANGED <<inputFile, num_batches, gpc, df, batches, saved_files,
                   verify_result, gexit, completed>>
    /\ UNCHANGED extVars

NextPartition ==
    \/ LoadCeoData
    \/ SplitIntoBatches
    \/ SaveBatches
    \/ CreateBatchSummary
    \/ VerifyAndFinish
    \/ DuplicateRow
    \/ DropRow

SpecPartition == InitPartition /\ [][NextPartition]_vars

(***************************************************************************)
(* extract_names_batch.py                                                  *)
(*                                                                         *)
(* The external table is the list of rows in the order the query's         *)
(* ORDER BY user_id returns them, the same on every query.  A user_id is   *)
(* opaque but ordered and a fullname is opaque, so tables are taken up to  *)
(* renaming: user ids start at 1 and grow by at most 1, and the fullnames  *)
(* of one user are numbered by first occurrence.  The source may return    *)
(* the same <<user_id, fullname>> twice (what drop_duplicates is for).     *)
(***************************************************************************)
CanonicalTable(t) ==
    \A j \in 1 .. Len(t) :
        /\ t[j][1] \in (IF j = 1 THEN {1} ELSE {t[j - 1][1], t[j - 1][1] + 1})
        /\ LET same == {t[i][2] : i \in {i \in 1 .. (j - 1) : t[i][1] = t[j][1]}}
           IN  \A n \in 1 .. (t[j][2] - 1) : n \in same

Tables ==
    UNION {{t \in [1 .. n -> (1 .. MaxRows) \X (1 .. MaxRows)] : CanonicalTable(t)} :
             n \in 0 .. MaxRows}

\* SELECT ... ORDER BY user_id LIMIT <limit> OFFSET <offset>
RunQuery(q) == Iloc(table, q.offset, q.offset + q.limit)

RECURSIVE DropDuplicatesByUser(_)
\* batch_df.drop_duplicates(subset=['user_id']): one row for each user_id
DropDuplicatesByUser(d) ==
    IF d = <<>> THEN <<>>
    ELSE LET front == DropDuplicatesByUser(SubSeq(d, 1, Len(d) - 1))
             last == d[Len(d)]
         IN  IF \E j \in 1 .. Len(front) : front[j][1] = last[1] THEN front
             ELSE Append(front, last)

RECURSIVE DropDuplicates(_)
\* batch_df.drop_duplicates(subset=['user_id', 'fullname']): first occurrences kept
DropDuplicates(d) ==
    IF d = <<>> THEN <<>>
    ELSE LET front == DropDuplicates(SubSeq(d, 1, Len(d) - 1))
             last == d[Len(d)]
         IN  IF \E j \in 1 .. Len(front) : front[j] = last THEN front
             ELSE Append(front, last)

\* batch_df['user_id'].nunique()
NUnique(d) == Cardinality({d[j][1] : j \in 1 .. Len(d)})

\* Offset for 0-based task ids: the "- 1" left out
OffsetZeroBased(task_id, p) == task_id * p

\* Offset without the page size: the index of the shard, not of its first row
OffsetUnscaled(task_id, p) == task_id - 1

\* offset = (task_id - 1) * rows_per_batch
Offset(task_id, p) == (task_id - 1) * p

\* the lines extract_batch writes to the stats file (file size, query time and
\* the timestamp, which no check below reads, are left out)
StatsLines(task_id, offset, d) ==
    <<<<"task_id", Digits(task_id)>>,
      <<"offset", Digits(offset)>>,
      <<"rows", Digits(Len(d))>>,
      <<"unique_users", Digits(NUnique(d))>>>>

\* WriteFile opening a data file in append mode: the rows already in the file
\* stay in front of the rows written
WriteFileAppend(dir, n, content) ==
    [m \in DOMAIN dir \cup {n} |->
        IF m # n THEN dir[m]
        ELSE IF n \in DOMAIN dir /\ "complete" \in DOMAIN content
             THEN [content EXCEPT !.rows = dir[n].rows \o @]
             ELSE content]

\* write (create or replace) file n of directory dir
WriteFile(dir, n, content) ==
    [m \in DOMAIN dir \cup {n} |-> IF m = n THEN content ELSE dir[m]]

\* the files of directory dir that task_id's worker names
OwnFiles(dir, task_id) ==
    [n \in DOMAIN dir \cap {DataName(task_id), StatsName(task_id)} |-> dir[n]]

\* tables whose rows are pairwise distinct users: <<1, 1>>, <<2, 1>>, ...
PlainTables == {[j \in 1 .. n |-> <<j, 1>>] : n \in 0 .. MaxRows}

\* the workers alone, over every table
InitWorkers ==
    /\ PartitionIdle
    /\ table \in Tables
    /\ rows_per_batch \in 1 .. MaxRows
    /\ ExtractionStart

\* the workers and the Reconciler.  The Reconciler reads file names and the
\* counts in the stats files only, so the tables are the plain ones.
InitExtraction ==
    /\ PartitionIdle
    /\ table \in PlainTables
    /\ rows_per_batch \in 1 .. MaxRows
    /\ ExtractionStart

\* the worker process of task i ends with exit code `code`: its locals are gone
Exits(i, code, why) ==
    /\ wpc' = [wpc EXCEPT ![i] = "exited"]
    /\ wexit' = [wexit EXCEPT ![i] = code]
    /\ wfail' = [wfail EXCEPT ![i] = why]
    /\ query' = [query EXCEPT ![i] = [limit |-> 0, offset |-> 0]]
    /\ batch_df' = [batch_df EXCEPT ![i] = <<>>]
    /\ startFiles' = [startFiles EXCEPT ![i] = <<>>]

\* the scheduler invokes extract_batch(i): lines 26-47, up to the query being issued
Start(i) ==
    /\ wpc[i] \in {"idle", "exited"}
    /\ runs < MaxRuns
    /\ runs' = runs + 1
    /\ query' = [query EXCEPT ![i] = [limit |-> rows_per_batch,
                                      offset |-> Offset(i, rows_per_batch)]]
    /\ batch_df' = [batch_df EXCEPT ![i] = <<>>]
    /\ wexit' = [wexit EXCEPT ![i] = -1]
    /\ wfail' = [wfail EXCEPT ![i] = "none"]
    /\ startFiles' = [startFiles EXCEPT ![i] = OwnFiles(outDir, i)]
    /\ wpc' = [wpc EXCEPT ![i] = "connected"]
    /\ UNCHANGED <<table, rows_per_batch, outDir, reconVars, partVars>>

\* the scheduler invokes extract_batch(i) and wrds.Connection raises: the
\* exception is not caught and the process ends with exit code 1
ConnectRaises(i) ==
    /\ wpc[i] \in {"idle", "exited"}
    /\ runs < MaxRuns
    /\ runs' = runs + 1
    /\ Exits(i, 1, "connect")
    /\ UNCHANGED <<table, rows_per_batch, outDir, reconVars, partVars>>

\* db.raw_sql(query) returns
QueryReturns(i) ==
    /\ wpc[i] = "connected"
    /\ batch_df' = [batch_df EXCEPT ![i] = RunQuery(query[i])]
    /\ wpc' = [wpc EXCEPT ![i] = "fetched"]
    /\ UNCHANGED <<table, rows_per_batch, query, wexit, wfail, startFiles, runs,
                   outDir, reconVars, partVars>>

\* QueryRaises with the output file opened for writing before the query is run
QueryRaisesAfterTruncate(i) ==
    /\ wpc[i] = "connected"
    /\ outDir' = WriteFile(outDir, DataName(i), [complete |-> FALSE, rows |-> <<>>])
    /\ Exits(i, 1, "query")
    /\ UNCHANGED <<table, rows_per_batch, runs, reconVars, partVars>>

\* db.raw_sql(query) raises: print, db.close(), sys.exit(1)
QueryRaises(i) ==
    /\ wpc[i] = "connected"
    /\ Exits(i, 1, "query")
    /\ UNCHANGED <<table, rows_per_batch, runs, outDir, reconVars, partVars>>

\* EmptyReturn with the empty page handled like a failed query: sys.exit(1)
EmptyReturnAsError(i) ==
    /\ wpc[i] = "fetched"
    /\ Len(batch_df[i]) = 0
    /\ Exits(i, 1, "empty")
    /\ UNCHANGED <<table, rows_per_batch, runs, outDir, reconVars, partVars>>

\* len(batch_df) == 0: db.close(); return
EmptyReturn(i) ==
    /\ wpc[i] = "fetched"
    /\ Len(batch_df[i]) = 0
    /\ Exits(i, 0, "empty")
    /\ UNCHANGED <<table, rows_per_batch, runs, outDir, reconVars, partVars>>

\* drop_duplicates, makedirs, and to_parquet opening (creating or truncating)
\* the data file
OpenDataFile(i) ==
    /\ wpc[i] = "fetched"
    /\ Len(batch_df[i]) # 0
    /\ batch_df' = [batch_df EXCEPT ![i] = DropDuplicates(@)]
    /\ outDir' = WriteFile(outDir, DataName(i), [complete |-> FALSE, rows |-> <<>>])
    /\ wpc' = [wpc EXCEPT ![i] = "writing_data"]
    /\ UNCHANGED <<table, rows_per_batch, query, wexit, wfail, startFiles, runs,
                   reconVars, partVars>>

\* to_parquet has written and closed the data file
CloseDataFile(i) ==
    /\ wpc[i] = "writing_data"
    /\ outDir' = WriteFile(outDir, DataName(i),
                           [complete |-> TRUE, rows |-> batch_df[i]])
    /\ wpc' = [wpc EXCEPT ![i] = "data_saved"]
    /\ UNCHANGED <<table, rows_per_batch, query, batch_df, wexit, wfail,
                   startFiles, runs, reconVars, partVars>>

\* OpenStatsFile moved in front of to_parquet: the stats file is opened as soon
\* as a non-empty page has been fetched
OpenStatsFileBeforeData(i) ==
    /\ wpc[i] = "fetched"
    /\ Len(batch_df[i]) # 0
    /\ outDir' = WriteFile(outDir, StatsName(i), [lines |-> <<>>])
    /\ wpc' = [wpc EXCEPT ![i] = "writing_stats"]
    /\ UNCHANGED <<table, rows_per_batch, query, batch_df, wexit, wfail,
                   startFiles, runs, reconVars, partVars>>

\* open(stats_file, 'w'): the stats file is created or truncated
OpenStatsFile(i) ==
    /\ wpc[i] = "data_saved"
    /\ outDir' = WriteFile(outDir, StatsName(i), [lines |-> <<>>])
    /\ wpc' = [wpc EXCEPT ![i] = "writing_stats"]
    /\ UNCHANGED <<table, rows_per_batch, query, batch_df, wexit, wfail,
                   startFiles, runs, reconVars, partVars>>

\* the with block ends: the lines are written and the file closed; db.close();
\* extract_batch returns
CloseStatsFile(i) ==
    /\ wpc[i] = "writing_stats"
    /\ outDir' = WriteFile(outDir, StatsName(i),
                    [lines |-> StatsLines(i, query[i].offset, batch_df[i])])
    /\ Exits(i, 0, "saved")
    /\ UNCHANGED <<table, rows_per_batch, runs, reconVars, partVars>>

\* the scheduler kills the worker process in mid-run (exit status 137)
Kill(i) ==
    /\ wpc[i] \notin {"idle", "exited"}
    /\ Exits(i, 137, "killed")
    /\ UNCHANGED <<table, rows_per_batch, runs, outDir, reconVars, partVars>>

(***************************************************************************)
(* verify_extraction.py                                                    *)
(***************************************************************************)
\* TaskIdText with only '.parquet' removed: "batch_0001" is left for int()
TaskIdTextKeepsPrefix(filename) == Remove(filename, ParquetSuffix)

\* task_id = int(filename.replace('batch_', '').replace('.parquet', ''))
TaskIdText(filename) == Remove(Remove(filename, BatchPrefix), ParquetSuffix)

\* found_ids of the loop over batch_files
FoundIds(files) == {ParseInt(TaskIdText(files[k])) : k \in 1 .. Len(files)}

\* set(range(1, expected_batches + 1)) with range starting at 0 and ending at
\* expected_batches - 1
MissingIdsZeroBased(found, expected) == (0 .. (expected - 1)) \ found

\* missing_ids = set(range(1, expected_batches + 1)) - found_ids
MissingIds(found, expected) == (1 .. expected) \ found

\* the stats dict parsed from the lines of a stats file
StatsHas(lines, key) == \E k \in 1 .. Len(lines) : lines[k][1] = key
StatsGet(lines, key) ==
    lines[CHOOSE k \in 1 .. Len(lines) :
            /\ lines[k][1] = key
            /\ \A m \in (k + 1) .. Len(lines) : lines[m][1] # key][2]

RECURSIVE TotalOf(_, _, _)
\* the sum, over the stats files, of int(stats[key]) where key is in stats
TotalOf(dir, files, key) ==
    IF files = <<>> THEN 0
    ELSE LET lines == dir[Head(files)].lines
         IN  (IF StatsHas(lines, key) THEN ParseInt(StatsGet(lines, key)) ELSE 0)
                + TotalOf(dir, Tail(files), key)

\* return len(missing_ids) == 0
Completeness(missing) == Cardinality(missing) = 0

\* __main__ with "sys.exit(1)" forgotten on the incomplete branch
ReconcilerExitAlwaysZero(ok) == 0

\* __main__: sys.exit(1) if not success, else sys.exit(0)
ReconcilerExit(ok) == IF ok THEN 0 ELSE 1

\* batch_files = sorted(glob.glob(f"{batch_dir}/batch_*.parquet"))
ScanBatchFiles ==
    /\ vpc = "idle"
    /\ batch_files' = Sorted(Glob(DOMAIN outDir, BatchPrefix, ParquetSuffix))
    /\ scanned' = {i \in TaskIds : DataName(i) \in DOMAIN outDir}
    /\ stats_files' = <<>>
    /\ found_ids' = {}
    /\ missing_ids' = {}
    /\ total_rows' = 0
    /\ total_unique_users' = 0
    /\ success' = "none"
    /\ vexit' = -1
    /\ vpc' = "globbed_batch"
    /\ UNCHANGED <<expected_batches, workerVars, outDir, partVars>>

\* stats_files = sorted(glob.glob(f"{batch_dir}/batch_*_stats.txt"))
ScanStatsFiles ==
    /\ vpc = "globbed_batch"
    /\ stats_files' = Sorted(Glob(DOMAIN outDir, BatchPrefix, StatsSuffix))
    /\ vpc' = "globbed"
    /\ UNCHANGED <<expected_batches, batch_files, found_ids, missing_ids,
                   total_rows, total_unique_users, success, vexit, scanned,
                   workerVars, outDir, partVars>>

\* the rest of verify_extraction (lines 33-141), then __main__'s exit.  The
\* expected_batches argument is first read here (line 41), so its value is
\* drawn here.
Report ==
    /\ vpc = "globbed"
    /\ vpc' = "exited"
    /\ \E n \in 0 .. MaxTask : expected_batches' = n
    /\ IF \E k \in 1 .. Len(batch_files) : ~IsInt(TaskIdText(batch_files[k]))
       THEN \* int() raises ValueError: the traceback ends the process
            /\ vexit' = 1
            /\ UNCHANGED <<found_ids, missing_ids, total_rows, total_unique_users,
                           success, outDir>>
       ELSE /\ found_ids' = FoundIds(batch_files)
            /\ missing_ids' = MissingIds(found_ids', expected_batches')
            /\ total_rows' = TotalOf(outDir, stats_files, "rows")
            /\ total_unique_users' = TotalOf(outDir, stats_files, "unique_users")
            /\ outDir' = WriteFile(outDir, ExtractionSummaryName,
                            [expected |-> expected_batches',
                             found |-> Len(batch_files),
                             missing |-> missing_ids',
                             rows |-> total_rows',
                             unique_users |-> total_unique_users'])
            /\ success' = IF Completeness(missing_ids') THEN "True" ELSE "False"
            /\ vexit' = ReconcilerExit(Completeness(missing_ids'))
    /\ UNCHANGED <<batch_files, stats_files, scanned, workerVars, partVars>>

NextWorkers ==
    \E i \in TaskIds :
        \/ Start(i)
        \/ ConnectRaises(i)
        \/ QueryReturns(i)
        \/ QueryRaises(i)
        \/ EmptyReturn(i)
        \/ OpenDataFile(i)
        \/ CloseDataFile(i)
        \/ OpenStatsFile(i)
        \/ CloseStatsFile(i)
        \/ Kill(i)

\* workers invoked, failing, re-invoked and killed by the scheduler
SpecWorkers == InitWorkers /\ [][NextWorkers]_vars

NextExtraction ==
    \/ \E i \in TaskIds :
          \/ Start(i)
          \/ ConnectRaises(i)
          \/ QueryReturns(i)
          \/ QueryRaises(i)
          \/ EmptyReturn(i)
          \/ OpenDataFile(i)
          \/ CloseDataFile(i)
          \/ OpenStatsFile(i)
          \/ CloseStatsFile(i)
    \/ ScanBatchFiles
    \/ ScanStatsFiles
    \/ Report

\* a Reconciler run concurrent with workers being invoked and re-invoked
SpecExtraction == InitExtraction /\ [][NextExtraction]_vars

NextAborts ==
    \/ NextExtraction
    \/ \E i \in TaskIds : Kill(i)

\* a Reconciler run concurrent with workers that are invoked, fail, are killed
\* in mid-run and are re-invoked
SpecAborts == InitExtraction /\ [][NextAborts]_vars

(***************************************************************************)
(* Properties of the Batch Partitioner                                     *)
(***************************************************************************)
\* split_into_batches has returned in this run
SplitDone == gpc \in {"save", "summary", "verify"} \/ (gpc = "exited" /\ inputFile.exists)

\* save_batches has returned in this run
SaveDone == saved_files # <<>>

RECURSIVE SumSeq(_)
SumSeq(s) == IF s = <<>> THEN 0 ELSE Head(s) + SumSeq(Tail(s))

ShardSizes == [i \in 1 .. Len(batches) |-> Len(batches[i])]

\* the number of rows equal to v in d
CountOf(v, d) == Cardinality({j \in 1 .. Len(d) : d[j] = v})

\* the shards in which input position j lands (its place in shard i is j
\* minus the sizes of the shards before i)
ShardsHolding(j) ==
    {i \in 1 .. Len(batches) :
        LET before == SumSeq(SubSeq(ShardSizes, 1, i - 1))
        IN  /\ before < j
            /\ j <= before + Len(batches[i])
            /\ batches[i][j - before] = df[j]}

\* C1: split_into_batches(R, k) returns exactly k shards whose concatenation in
\* shard order is R (same length, order and multiplicity, equal rows included):
\* the shard sizes sum to len(R) and every position of R lands in exactly one shard.
C1_ShardsConcatenateToInput ==
    SplitDone =>
        /\ Len(batches) = num_batches
        /\ Concat(batches) = df
        /\ SumSeq(ShardSizes) = Len(df)
        /\ \A j \in 1 .. Len(df) : Cardinality(ShardsHolding(j)) = 1

\* an input with equal rows has been split into several shards
C1_Witness ==
    /\ gpc = "save"
    /\ num_batches >= 2
    /\ Len(df) >= 3
    /\ DuplicatedSum(df) > 0
    /\ Len(batches[2]) > 0

\* C2: shard i (0-indexed) has size T // k + 1 when i < T mod k and T // k
\* otherwise; any two sizes differ by at most 1 and larger shards come first;
\* 13 records in 5 shards have sizes 3, 3, 3, 2, 2.
C2_ShardSizes ==
    /\ SplitDone =>
        /\ \A i \in 0 .. (num_batches - 1) :
              Len(batches[i + 1]) =
                 IF i < Len(df) % num_batches
                 THEN (Len(df) \div num_batches) + 1
                 ELSE Len(df) \div num_batches
        /\ \A i, j \in 1 .. num_batches :
              /\ Len(batches[i]) - Len(batches[j]) <= 1
              /\ i < j => Len(batches[i]) >= Len(batches[j])
    /\ LET thirteen == split_into_batches([j \in 1 .. 13 |-> j], 5)
       IN  [i \in 1 .. 5 |-> Len(thirteen[i])] = <<3, 3, 3, 2, 2>>

\* a split with a remainder: some shards are one row larger than others
C2_Witness ==
    /\ gpc = "save"
    /\ num_batches >= 3
    /\ Len(df) % num_batches = 1
    /\ Len(batches[1]) = Len(batches[num_batches]) + 1

\* the reloaded shard files hold a row more often, or less often, than the input
Corrupted ==
    \E v \in {df[j] : j \in 1 .. Len(df)}
             \cup {Reloaded(batchDir, saved_files)[j] :
                     j \in 1 .. Len(Reloaded(batchDir, saved_files))} :
        CountOf(v, Reloaded(batchDir, saved_files)) # CountOf(v, df)

\* C3 (as claimed): verify_batches returns false if and only if the reloaded
\* shard file set is corrupted (a row duplicated or dropped); an uncorrupted
\* partition of any input makes it return true.
C3_VerifyFalseIffCorrupted ==
    SaveDone =>
        /\ (verify_batches(df, saved_files, batchDir) = FALSE) <=> Corrupted
        /\ verify_result = "False" => Corrupted
        /\ verify_result = "True" => ~Corrupted

\* C3 (amended): for an input whose rows are pairwise distinct, verify_batches
\* returns false if and only if the reloaded shard file set is corrupted, and
\* an uncorrupted partition makes it return true.
C3_VerifyFalseIffCorruptedDistinctInput ==
    (SaveDone /\ DuplicatedSum(df) = 0) =>
        /\ (verify_batches(df, saved_files, batchDir) = FALSE) <=> Corrupted
        /\ verify_result = "False" => Corrupted
        /\ verify_result = "True" => ~Corrupted

\* main has run verify_batches on a corrupted file set of a distinct-row input
C3_Witness ==
    /\ gpc = "exited"
    /\ verify_result = "False"
    /\ DuplicatedSum(df) = 0
    /\ Len(df) >= 3
    /\ faults > 0
    /\ Corrupted

\* C4 (as claimed): when the reload check finds a count mismatch or duplicates,
\* main ends with a non-zero exit code and never prints "completed successfully".
C4_IntegrityFailureIsFatal ==
    verify_result = "False" => (gexit # 0 /\ ~completed)

(***************************************************************************)
(* Properties of the shard workers                                         *)
(***************************************************************************)
\* the workers whose query text has been built and whose run has not ended
Running == {i \in TaskIds : wpc[i] \notin {"idle", "exited"}}

\* the row positions (0-based) worker i's query asks for
Window(i) == query[i].offset .. (query[i].offset + query[i].limit - 1)

\* C5: extract_batch queries with OFFSET (i-1)*p and LIMIT p: the offset of
\* shard 1 is 0 and the offsets of shards i and i+1 differ by p (page size 10,
\* shard 3: offset 20).
C5_OffsetAndLimit ==
    /\ \A i \in Running :
          /\ query[i].offset + rows_per_batch = i * rows_per_batch
          /\ query[i].limit = rows_per_batch
          /\ i = 1 => query[i].offset = 0
    /\ \A i \in Running, j \in Running :
          j = i + 1 => query[j].offset - query[i].offset = rows_per_batch
    /\ Offset(3, 10) = 20

\* two consecutive shards are running with a page size above 1
C5_Witness ==
    /\ rows_per_batch >= 2
    /\ {1, 2} \subseteq Running

\* C6: with the table in the same order on every query, the windows of
\* distinct shards are disjoint, and those of shards 1..N are contiguous and
\* cover exactly the positions [0, N*p): each row position below N*p is
\* fetched by exactly one shard, in whatever order the workers run.
C6_WindowsPartition ==
    /\ \A i \in Running, j \in Running : i # j => Window(i) \cap Window(j) = {}
    /\ \A n \in TaskIds :
          (1 .. n) \subseteq Running =>
             /\ UNION {Window(i) : i \in 1 .. n} = 0 .. (n * rows_per_batch - 1)
             /\ \A i \in 1 .. (n - 1) :
                   query[i].offset + query[i].limit = query[i + 1].offset
             /\ \A x \in 1 .. Min(Len(table), n * rows_per_batch) :
                   \E i \in 1 .. n :
                      /\ (x - 1) \in Window(i)
                      /\ RunQuery(query[i])[x - query[i].offset] = table[x]
                      /\ \A j \in (1 .. n) \ {i} : (x - 1) \notin Window(j)
             /\ (\A i \in 1 .. n : wpc[i] = "fetched") =>
                   Concat([i \in 1 .. n |-> batch_df[i]])
                      = Iloc(table, 0, n * rows_per_batch)

\* every shard has fetched its page, the first one a full page of two rows
C6_Witness ==
    /\ \A i \in TaskIds : wpc[i] = "fetched"
    /\ rows_per_batch = 2
    /\ Len(batch_df[1]) = 2

\* C7: when the query returns zero rows, extract_batch returns normally (exit
\* code 0), creates no data file and no stats file for the shard, and leaves
\* every file of the output directory as it is.
C7_EmptyResultIsBenign ==
    [][\A i \in TaskIds :
          (/\ wpc[i] = "fetched"
           /\ Len(batch_df[i]) = 0
           /\ wpc'[i] # "fetched"
           /\ wfail'[i] # "killed")
          => /\ wpc'[i] = "exited"
             /\ wexit'[i] = 0
             /\ outDir' = outDir
             /\ OwnFiles(outDir', i) = startFiles[i]
             /\ DOMAIN startFiles[i] = {}]_vars

\* a shard past the end of the table has returned while another shard's file exists
C7_Witness ==
    \E i \in TaskIds, j \in TaskIds :
        /\ wfail[i] = "empty"
        /\ wexit[i] = 0
        /\ DataName(j) \in DOMAIN outDir

\* C8: when issuing the query raises, the worker exits with a non-zero code
\* and writes nothing: its own data and stats files from an earlier run, and
\* every other file, are as they were before the failed run.
C8_QueryFailureWritesNothing ==
    [][\A i \in TaskIds :
          (wpc[i] = "connected" /\ wfail'[i] = "query")
          => /\ wpc'[i] = "exited"
             /\ wexit'[i] > 0
             /\ outDir' = outDir
             /\ OwnFiles(outDir', i) = startFiles[i]]_vars

\* a shard whose earlier run saved both files has failed on its query
C8_Witness ==
    \E i \in TaskIds :
        /\ wfail[i] = "query"
        /\ wexit[i] = 1
        /\ DataName(i) \in DOMAIN outDir
        /\ StatsName(i) \in DOMAIN outDir
        /\ outDir[DataName(i)].complete
        /\ outDir[StatsName(i)].lines # <<>>

(***************************************************************************)
(* Properties of the Reconciler                                            *)
(***************************************************************************)
\* verify_extraction has returned
Reported == vpc = "exited" /\ success # "none"

\* C9: the missing set is {1..N} minus the indices parsed from the names of the
\* data files present at scan time; found indices outside 1..N neither add to
\* nor remove from it (found {1,2,4}, N = 5: missing {3,5}).
C9_MissingIsExpectedMinusFound ==
    /\ Reported =>
          /\ found_ids = scanned
          /\ missing_ids = {i \in 1 .. expected_batches : i \notin scanned}
    /\ MissingIds(FoundIds(Sorted({DataName(1), DataName(2), DataName(4)})), 5)
          = {3, 5}

\* a run that found a data file with an index above N and missed one within 1..N
C9_Witness ==
    /\ Reported
    /\ \E i \in scanned : i > expected_batches
    /\ missing_ids # {}

\* C10: the Reconciler returns completeness = true exactly when the missing set
\* is empty; its command-line run exits with code 0 exactly then, and with code
\* 1 whenever an index in 1..N has no data file.
C10_CompleteIffNothingMissing ==
    vpc = "exited" =>
        /\ success \in {"True", "False"}
        /\ success = "True" <=> missing_ids = {}
        /\ vexit = 0 <=> success = "True"
        /\ vexit \in {0, 1}
        /\ (\E i \in 1 .. expected_batches : i \notin scanned) => vexit = 1

\* a complete run: every index of a non-empty 1..N has its data file
C10_Witness ==
    /\ vpc = "exited"
    /\ expected_batches >= 1
    /\ (1 .. expected_batches) \subseteq scanned
    /\ vexit = 0

\* the row count of shard i's sidecar as the Reconciler reads it: 0 when the
\* sidecar was not among the scanned stats files or has no "rows" line
SidecarRows(i) ==
    IF /\ \E k \in 1 .. Len(stats_files) : stats_files[k] = StatsName(i)
       /\ StatsHas(outDir[StatsName(i)].lines, "rows")
    THEN ParseInt(StatsGet(outDir[StatsName(i)].lines, "rows"))
    ELSE 0

\* verify_extraction takes its step from the scans to its return
Reports == vpc = "globbed" /\ vpc' = "exited" /\ success' # "none"

\* C11 (as claimed): the Reconciler's aggregate row count is the sum of the row
\* counts of the sidecars of the found shards (those whose data file was in the
\* scan): a found shard without sidecar counts 0, a shard whose data file is
\* absent counts nothing (sidecars with 100 and 50 rows aggregate to 150).
C11_AggregateOverFoundShards ==
    [][Reports =>
          total_rows' = SumSeq([i \in 1 .. MaxTask |->
                                  IF i \in found_ids' THEN SidecarRows(i) ELSE 0])]_vars

\* C12: a Reconciler step is read-only on shard state: it leaves every data
\* file and sidecar as it was, creates and deletes none, starts no worker and
\* changes no worker's state; the one file it writes is its summary, whose name
\* is no worker's file name and is matched by neither scan pattern.
C12_ReconcilerIsReadOnly ==
    [][vpc' # vpc =>
          /\ workerVars' = workerVars
          /\ \A n \in DOMAIN outDir \ {ExtractionSummaryName} :
                n \in DOMAIN outDir' /\ outDir'[n] = outDir[n]
          /\ DOMAIN outDir' \subseteq DOMAIN outDir \cup {ExtractionSummaryName}
          /\ \A i \in TaskIds : OwnFiles(outDir', i) = OwnFiles(outDir, i)
          /\ \A i \in TaskIds : ExtractionSummaryName \notin {DataName(i), StatsName(i)}
          /\ Glob({ExtractionSummaryName}, BatchPrefix, ParquetSuffix) = {}
          /\ Glob({ExtractionSummaryName}, BatchPrefix, StatsSuffix) = {}]_vars

\* the Reconciler has written its summary next to a finished shard and a shard
\* whose worker is in mid-run
C12_Witness ==
    /\ vpc = "exited"
    /\ ExtractionSummaryName \in DOMAIN outDir
    /\ \E i \in TaskIds : StatsName(i) \in DOMAIN outDir
    /\ \E i \in TaskIds : wpc[i] \in {"writing_data", "data_saved", "writing_stats"}
    /\ missing_ids # {}

\* what one complete run of extract_batch(i), alone, makes of directory dir
RunAlone(dir, i) ==
    LET page == Iloc(table, Offset(i, rows_per_batch),
                     Offset(i, rows_per_batch) + rows_per_batch)
        d == DropDuplicates(page)
    IN  IF Len(page) = 0 THEN dir
        ELSE WriteFile(WriteFile(dir, DataName(i), [complete |-> TRUE, rows |-> d]),
                       StatsName(i),
                       [lines |-> StatsLines(i, Offset(i, rows_per_batch), d)])

RECURSIVE RunInOrder(_, _)
\* the workers of a list of task ids run one after another
RunInOrder(dir, order) ==
    IF order = <<>> THEN dir
    ELSE RunInOrder(RunAlone(dir, Head(order)), Tail(order))

\* the orders in which the task ids of set S can be run one after another
OrdersOf(S) ==
    {o \in [1 .. Cardinality(S) -> S] : \A a, b \in DOMAIN o : a # b => o[a] # o[b]}

\* the workers that have run to their return, when every worker that was
\* invoked has: no run failed, was killed, or is still going
Finished == {i \in TaskIds : wfail[i] \in {"saved", "empty"}}
AllReturned ==
    \A i \in TaskIds : wpc[i] \in {"idle", "exited"} /\ wfail[i] \in {"none", "saved", "empty"}

\* C13: workers with distinct shard indices never write the same file: the
\* data-file and sidecar names are injective in the index and never coincide, a
\* step of one worker leaves every other worker's files alone, and whatever the
\* interleaving, once the invoked workers have returned the output directory is
\* what running them one after another, in any order, produces.
C13_DistinctWorkersDistinctFiles ==
    /\ \A i, j \in 1 .. (MaxTask + 10) :
          /\ i # j => DataName(i) # DataName(j) /\ StatsName(i) # StatsName(j)
          /\ DataName(i) # StatsName(j)
    /\ [][/\ \A i \in TaskIds :
                (wpc'[i] = wpc[i] /\ wexit'[i] = wexit[i])
                => OwnFiles(outDir', i) = OwnFiles(outDir, i)
          /\ AllReturned' =>
                \A o \in OrdersOf(Finished') : outDir' = RunInOrder(<<>>, o)]_vars

\* two workers wrote their files in interleaved steps and both have returned
C13_Witness ==
    /\ AllReturned
    /\ Cardinality({i \in TaskIds : wfail[i] = "saved"}) >= 2
    /\ runs >= 2

\* the run of worker i began on the two files of a completed earlier run
BeganOnSavedShard(i) ==
    /\ DOMAIN startFiles[i] = {DataName(i), StatsName(i)}
    /\ startFiles[i][DataName(i)].complete
    /\ startFiles[i][StatsName(i)].lines # <<>>

\* C14: re-running a shard is idempotent: when a run over the same table ends
\* successfully on a shard an earlier run had saved, the data file and the
\* sidecar are replaced, never appended to: rows, row count, unique-user count
\* and offset are what they were after the earlier run.
C14_RerunIsIdempotent ==
    [][\A i \in TaskIds :
          (wpc[i] = "writing_stats" /\ wfail'[i] = "saved" /\ BeganOnSavedShard(i))
          => /\ OwnFiles(outDir', i) = startFiles[i]
             /\ outDir'[DataName(i)].rows = startFiles[i][DataName(i)].rows
             /\ \A key \in {"task_id", "offset", "rows", "unique_users"} :
                   StatsGet(outDir'[StatsName(i)].lines, key)
                      = StatsGet(startFiles[i][StatsName(i)].lines, key)]_vars

\* the re-run of a saved shard has rewritten the data file and is about to
\* write the sidecar it has truncated
C14_Witness ==
    \E i \in TaskIds :
        /\ wpc[i] = "writing_stats"
        /\ BeganOnSavedShard(i)
        /\ Len(startFiles[i][DataName(i)].rows) >= 1
        /\ outDir[DataName(i)].complete
        /\ outDir[StatsName(i)].lines = <<>>

\* C15: the Reconciler tolerates workers in flight: wherever the workers are
\* when it scans and reads, it runs to its return without raising, and every
\* index in 1..N whose data file did not exist at scan time (worker still
\* running, failed, killed or never started) is reported missing.
C15_ReconcilerToleratesWorkers ==
    vpc = "exited" =>
        /\ success # "none"
        /\ vexit # -1
        /\ \A i \in 1 .. expected_batches : i \notin scanned => i \in missing_ids
        /\ \A i \in missing_ids : i \notin scanned

\* the Reconciler has returned while one shard's worker, not yet writing, was
\* running and another's had failed or been killed: both are reported missing
C15_Witness ==
    /\ Reported
    /\ \E i, j \in missing_ids :
          /\ wpc[i] \in {"connected", "fetched"}
          /\ DataName(i) \notin DOMAIN outDir
          /\ wfail[j] \in {"connect", "query", "killed"}
    /\ \E i \in TaskIds : wpc[i] = "idle" \/ i \in scanned \/ missing_ids = 1 .. MaxTask

\* the page of the table that shard i's query returns
PageOf(i) ==
    Iloc(table, Offset(i, rows_per_batch), Offset(i, rows_per_batch) + rows_per_batch)

\* the position at which row v first occurs in d
FirstAt(v, d) == CHOOSE j \in 1 .. Len(d) : d[j] = v /\ \A m \in 1 .. (j - 1) : d[m] # v

\* C16: the rows persisted for a shard are its page deduplicated by the
\* (user_id, fullname) pair: no pair is persisted twice, every pair of the page
\* is persisted, and the persisted rows are in the order of their first
\* occurrence in the page.
C16_PersistedRowsAreDeduplicatedPage ==
    \A i \in TaskIds :
        (DataName(i) \in DOMAIN outDir /\ outDir[DataName(i)].complete)
        => LET rows == outDir[DataName(i)].rows
           IN  /\ \A a, b \in 1 .. Len(rows) : a # b => rows[a] # rows[b]
               /\ {rows[a] : a \in 1 .. Len(rows)}
                     = {PageOf(i)[j] : j \in 1 .. Len(PageOf(i))}
               /\ \A a, b \in 1 .. Len(rows) :
                     a < b => FirstAt(rows[a], PageOf(i)) < FirstAt(rows[b], PageOf(i))

\* a page with a repeated pair was persisted, one row shorter
C16_Witness ==
    \E i \in TaskIds :
        /\ DataName(i) \in DOMAIN outDir
        /\ outDir[DataName(i)].complete
        /\ Len(PageOf(i)) >= 2
        /\ Len(outDir[DataName(i)].rows) = Len(PageOf(i)) - 1

\* C17 (as claimed): whenever a shard has a data file and a sidecar and no
\* worker of the shard is running, also after a re-run was aborted at any step,
\* the sidecar describes the data file: task id i, offset (i-1)*p, rows equal to
\* the number of rows in the data file, and unique_users <= rows <= p.
C17_SidecarDescribesDataFile ==
    \A i \in TaskIds :
        (/\ wpc[i] \in {"idle", "exited"}
         /\ DataName(i) \in DOMAIN outDir
         /\ StatsName(i) \in DOMAIN outDir)
        => LET lines == outDir[StatsName(i)].lines
               has(key) == StatsHas(lines, key)
               get(key) == ParseInt(StatsGet(lines, key))
           IN  /\ \A key \in {"task_id", "offset", "rows", "unique_users"} : has(key)
               /\ get("task_id") = i
               /\ get("offset") = (i - 1) * rows_per_batch
               /\ get("rows") = Len(outDir[DataName(i)].rows)
               /\ get("unique_users") <= get("rows")
               /\ get("rows") <= rows_per_batch

\* C18 (as claimed): partitioning an empty list, or one with fewer rows than k,
\* is not an error: there are k shards, those past the last row empty (all k
\* for an empty input), and main runs split, save, summary and verify to the
\* end without raising: it exits with code 0.
C18_ShortInputIsNotAnError ==
    (inputFile.exists /\ Len(inputFile.rows) < num_batches /\ faults = 0) =>
        /\ SplitDone =>
              /\ Len(batches) = num_batches
              /\ \A i \in 1 .. num_batches :
                    Len(batches[i]) = IF i <= Len(df) THEN 1 ELSE 0
        /\ gpc = "exited" => (gexit = 0 /\ completed)

\* C19: in every state reached by interleaved worker runs (saved, empty,
\* failed, killed in mid-run) and Reconciler runs, a shard's sidecar exists only
\* if its data file exists: the worker opens the data file before the sidecar
\* and nothing deletes a file.  (The converse fails: see the witness.)
C19_SidecarOnlyWithDataFile ==
    /\ \A i \in TaskIds :
          StatsName(i) \in DOMAIN outDir => DataName(i) \in DOMAIN outDir
    /\ Cardinality(Glob(DOMAIN outDir, BatchPrefix, StatsSuffix))
          <= Cardinality(Glob(DOMAIN outDir, BatchPrefix, ParquetSuffix))

\* after a kill and a Reconciler run, one shard has a data file and no
\* sidecar, and another shard has both
C19_Witness ==
    /\ vpc = "exited"
    /\ \E i, j \in TaskIds :
          /\ wfail[i] = "killed"
          /\ DataName(i) \in DOMAIN outDir
          /\ StatsName(i) \notin DOMAIN outDir
          /\ StatsName(j) \in DOMAIN outDir

(***************************************************************************)
(* The detect-and-resubmit loop: verify_extraction is run, the task ids it *)
(* lists as missing are submitted again (the qsub -t line it prints), the  *)
(* workers run to their return, and verify_extraction is run again.        *)
(***************************************************************************)
\* what earlier runs of shard i may have left in directory dir: nothing, the
\* two files of a saved run, or the truncated data file of a killed run
LeftBy(dir, i, how) ==
    IF how = "nothing" \/ Len(PageOf(i)) = 0 THEN dir
    ELSE IF how = "saved" THEN RunAlone(dir, i)
    ELSE WriteFile(dir, DataName(i), [complete |-> FALSE, rows |-> <<>>])

RECURSIVE LeftByAll(_, _, _)
LeftByAll(dir, how, i) ==
    IF i > MaxTask THEN dir ELSE LeftByAll(LeftBy(dir, i, how[i]), how, i + 1)

InitLoop ==
    /\ PartitionIdle
    /\ table \in PlainTables
    /\ rows_per_batch \in 1 .. MaxRows
    /\ expected_batches \in 1 .. MaxTask
    /\ \E how \in [TaskIds -> {"nothing", "saved", "killed"}] :
          outDir = LeftByAll(<<>>, how, 1)
    /\ wpc = [i \in TaskIds |-> "idle"]
    /\ query = [i \in TaskIds |-> [limit |-> 0, offset |-> 0]]
    /\ batch_df = [i \in TaskIds |-> <<>>]
    /\ wexit = [i \in TaskIds |-> -1]
    /\ wfail = [i \in TaskIds |-> "none"]
    /\ startFiles = [i \in TaskIds |-> <<>>]
    /\ runs = 0
    /\ vpc = "idle"
    /\ batch_files = <<>>
    /\ stats_files = <<>>
    /\ found_ids = {}
    /\ missing_ids = {}
    /\ total_rows = 0
    /\ total_unique_users = 0
    /\ success = "none"
    /\ vexit = -1
    /\ scanned = {}

\* verify_extraction(batch_dir, N) reports, N being the same in every round
LoopReport == Report /\ expected_batches' = expected_batches

\* the scheduler submits the missing task ids again: extract_batch(i) starts
\* for each of them (lines 26-47, as in Start)
Resubmit ==
    /\ vpc = "exited"
    /\ success = "False"
    /\ vpc' = "resubmitted"
    /\ wpc' = [i \in TaskIds |-> IF i \in missing_ids THEN "connected" ELSE wpc[i]]
    /\ query' = [i \in TaskIds |->
                   IF i \in missing_ids
                   THEN [limit |-> rows_per_batch, offset |-> Offset(i, rows_per_batch)]
                   ELSE query[i]]
    /\ batch_df' = [i \in TaskIds |-> IF i \in missing_ids THEN <<>> ELSE batch_df[i]]
    /\ wexit' = [i \in TaskIds |-> IF i \in missing_ids THEN -1 ELSE wexit[i]]
    /\ wfail' = [i \in TaskIds |-> IF i \in missing_ids THEN "none" ELSE wfail[i]]
    /\ startFiles' = [i \in TaskIds |->
                        IF i \in missing_ids THEN OwnFiles(outDir, i) ELSE startFiles[i]]
    /\ UNCHANGED <<table, rows_per_batch, runs, outDir, expected_batches, batch_files,
                   stats_files, found_ids, missing_ids, total_rows,
                   total_unique_users, success, vexit, scanned, partVars>>

\* the array job is over (every submitted worker has returned) and
\* verify_extraction is run again
NextRound ==
    /\ vpc = "resubmitted"
    /\ \A i \in TaskIds : wpc[i] \in {"idle", "exited"}
    /\ vpc' = "idle"
    /\ UNCHANGED <<workerVars, outDir, expected_batches, batch_files, stats_files,
                   found_ids, missing_ids, total_rows, total_unique_users, success,
                   vexit, scanned, partVars>>

\* a step of worker i that leads to a normal return
WorkerReturnsNormally(i) ==
    \/ QueryReturns(i)
    \/ EmptyReturn(i)
    \/ OpenDataFile(i)
    \/ CloseDataFile(i)
    \/ OpenStatsFile(i)
    \/ CloseStatsFile(i)

ReconcilerRound ==
    \/ ScanBatchFiles
    \/ ScanStatsFiles
    \/ LoopReport
    \/ Resubmit
    \/ NextRound

NextLoop ==
    \/ \E i \in TaskIds : WorkerReturnsNormally(i)
    \/ ReconcilerRound

\* every submitted worker process runs on to its return, and the operator
\* keeps running verify_extraction and submitting what it lists
SpecLoop ==
    /\ InitLoop
    /\ [][NextLoop]_vars
    /\ \A i \in TaskIds : WF_vars(WorkerReturnsNormally(i))
    /\ WF_vars(ReconcilerRound)

\* C20 (as claimed): the detect-and-resubmit loop converges: from any output
\* directory, when every index reported missing is re-invoked and every
\* re-invoked worker returns normally, a Reconciler run eventually reports
\* completeness = true for 1..N.
C20_ResubmitLoopConverges ==
    <>(vpc = "exited" /\ success = "True")

\* C21 (as claimed): when a Reconciler run that overlaps with workers returns
\* completeness = true, every shard in 1..N has finished a successful run: at
\* the scan no worker of 1..N is between opening its data file and closing its
\* sidecar, and each has a completely written data file and its sidecar.  (What
\* the run returns for N is fixed by the file names of the scan.)
C21_CompleteMeansAllShardsFinished ==
    [][(vpc = "idle" /\ vpc' = "globbed_batch") =>
          \A n \in 1 .. MaxTask :
              Completeness(MissingIds(FoundIds(batch_files'), n)) =>
                  \A i \in 1 .. n :
                      /\ wpc[i] \notin {"writing_data", "data_saved", "writing_stats"}
                      /\ DataName(i) \in DOMAIN outDir
                      /\ outDir[DataName(i)].complete
                      /\ StatsName(i) \in DOMAIN outDir
                      /\ outDir[StatsName(i)].lines # <<>>]_vars

====
